---- MODULE Spec2Model ----
(***************************************************************************)
(* Verification model of semaphore-v4-identity-rs: the scalar helpers, the *)
(* byte/integer codecs, the prime field F1Field, the Tonelli-Shanks square *)
(* root, the Baby Jubjub curve, EdDSA-Poseidon and the Identity object.    *)
(*                                                                         *)
(* Scaling.  The source works on 254-bit integers in 32-byte buffers; TLC  *)
(* integers are 32 bits wide.  The model runs the same algorithms, line by *)
(* line, on a curve of the same shape at 1/16 of the width:                *)
(*   - buffers are BufLen = 2 bytes (source: 32), digests 2*BufLen bytes   *)
(*     (source: 64); a byte is still 8 bits, so the masks 0xf8, 0x7f,      *)
(*     0x40 and 0x80 are the source's;                                     *)
(*   - R is a 14-bit prime (source: 254-bit) with R / 2^14 ~ 0.74          *)
(*     (source: R / 2^254 ~ 0.76), R - 1 = 2^7 * 95;                       *)
(*   - the curve A*x^2 + y^2 = 1 + D*x^2*y^2 has A a square and D a        *)
(*     non-square with A - D = 4, as in the source, and                    *)
(*     ORDER = 8 * SUBORDER > R with SUBORDER prime;                       *)
(*   - BASE8 is 8 times a generator and has order SUBORDER.                *)
(* BLAKE-512 and Poseidon are external crates; they are represented by     *)
(* fixed deterministic mixing functions of the same signature.             *)
(***************************************************************************)
EXTENDS Integers, Sequences, FiniteSets, TLC

VARIABLES
  sessKey,      \* EdDSA session: the caller's private key bytes
  sessMsg,      \* EdDSA session: the caller's message bytes
  sessSig,      \* EdDSA session: None or Some(Signature) the caller holds
  sig_src,      \* where sessSig comes from: "none", "signed", "tampered", "supplied"
  sessPk,       \* EdDSA session: None or Some(Point) the caller holds
  pk_src,       \* where sessPk comes from: "none", "derived", "tampered"
  given,        \* Identity session: the Option<Vec<u8>> passed to Identity::new
  identity,     \* Identity session: None or Some(Identity)
  exported,     \* Identity session: None or Some(base64 string) from export
  imported,     \* Identity session: None or Some(Identity) from import
  curPoint,     \* Point session: the point to pack
  curPacked,    \* Point and signature codecs: None or Some(packed value) to unpack
  packed_src,   \* where curPacked comes from: "none", "packed", "supplied"
  ret           \* the last call: [op, st, val]

vars == <<sessKey, sessMsg, sessSig, sig_src, sessPk, pk_src,
          given, identity, exported, imported, curPoint, curPacked, packed_src, ret>>
eddsa_vars == <<sessKey, sessMsg, sessSig, sig_src, sessPk, pk_src>>
identity_vars == <<given, identity, exported, imported>>
point_vars == <<curPoint, curPacked, packed_src>>

\* ------------------------------------------------------------------------
\* Program constants (scaled, see above)
\* ------------------------------------------------------------------------
R == 12161
ORDER == 12248
BufLen == 2
Byte == 256

\* ------------------------------------------------------------------------
\* Rust integer semantics: `/` and `%` on BigInt truncate toward zero
\* ------------------------------------------------------------------------
Abs(a) == IF a < 0 THEN -a ELSE a

DivT(a, b) == IF (a < 0) = (b < 0) THEN Abs(a) \div Abs(b) ELSE -(Abs(a) \div Abs(b))

RemT(a, b) == IF a < 0 THEN -(Abs(a) % Abs(b)) ELSE a % Abs(b)

\* (a * b) % m as Rust computes it, evaluated without leaving 32 bits:
\* the truncated remainder of a product has the product's sign and the
\* magnitude (|a| mod m)(|b| mod m) mod m.
MulRem(a, b, m) ==
  LET mag == ((Abs(a) % m) * (Abs(b) % m)) % m
  IN IF (a < 0) # (b < 0) THEN -mag ELSE mag

RECURSIVE Pow2(_)
Pow2(n) == IF n = 0 THEN 1 ELSE 2 * Pow2(n - 1)

\* ------------------------------------------------------------------------
\* utils/src/scalar.rs
\* ------------------------------------------------------------------------
scalar_is_zero(a) == a = 0

\* BigInt `&` is two's complement: the low bit of a negative odd number is 1
scalar_is_odd(a) == a % 2 = 1

\* BigInt `>>` is an arithmetic shift: it rounds toward minus infinity
scalar_shift_right(a, n) == a \div Pow2(n)

scalar_mul(a, b) == a * b

scalar_gt(a, b) == a > b

\* ------------------------------------------------------------------------
\* utils/src/f1_field.rs  (order is self.order)
\* ------------------------------------------------------------------------
F1Field_one == 1
F1Field_zero == 0
F1Field_half(order) == scalar_shift_right(order, 1)
F1Field_negone(order) == order - F1Field_one

F1Field_e(order, res) ==
  LET r == RemT(res, order)
  IN IF r < F1Field_zero THEN r + order ELSE r

F1Field_mul(order, a, b) == MulRem(a, b, order)

\* Mutation of F1Field::sub: the difference without the wrap.
F1Field_sub_plain(order, a, b) == a - b

F1Field_sub(order, a, b) == IF a >= b THEN a - b ELSE order - b + a

F1Field_add(order, a, b) ==
  LET res == a + b
  IN IF res >= order THEN res - order ELSE res

\* The extended-Euclid loop of inv; q = r / newr truncates.
RECURSIVE inv_loop(_, _, _, _)
inv_loop(t, r, newt, newr) ==
  IF newr = 0 THEN t
  ELSE LET q == DivT(r, newr)
       IN inv_loop(newt, newr, t - q * newt, r - q * newr)

\* Mutation of F1Field::inv: no test for zero.
F1Field_inv_never_panics(a) == FALSE

\* inv panics on zero: callers test F1Field_inv_panics first.
F1Field_inv_panics(a) == a = 0

F1Field_inv(order, a) ==
  LET t == inv_loop(F1Field_zero, order, F1Field_one, RemT(a, order))
  IN IF t < F1Field_zero THEN t + order ELSE t

F1Field_div(order, a, b) == F1Field_mul(order, a, F1Field_inv(order, b))

F1Field_eq(a, b) == a = b

F1Field_square(order, a) == MulRem(a, a, order)

F1Field_lt(order, a, b) ==
  LET aa == IF a > F1Field_half(order) THEN a - order ELSE a
      bb == IF b > F1Field_half(order) THEN b - order ELSE b
  IN aa < bb

F1Field_geq(order, a, b) ==
  LET aa == IF a > F1Field_half(order) THEN a - order ELSE a
      bb == IF b > F1Field_half(order) THEN b - order ELSE b
  IN aa >= bb

F1Field_neg(order, a) == IF a = 0 THEN a ELSE order - a

F1Field_is_zero(a) == a = 0

\* F1Field::pow is defined after scalar_bits below.

\* ------------------------------------------------------------------------
\* utils/src/scalar.rs: bits.  The loop leaves only when e reaches zero; a
\* shift that leaves e unchanged (e = -1) means it never does.
\* ------------------------------------------------------------------------
RECURSIVE bits_loop(_, _)
bits_loop(res, e) ==
  IF e = 0 THEN [halts |-> TRUE, res |-> res]
  ELSE LET e2 == e \div 2
       IN IF e2 = e THEN [halts |-> FALSE, res |-> res]
          ELSE bits_loop(Append(res, IF e % 2 = 1 THEN 1 ELSE 0), e2)

scalar_bits(n) == bits_loop(<<>>, n)

RECURSIVE pow_loop(_, _, _, _, _)
pow_loop(order, base, bits, i, res) ==
  IF i < 1 THEN res
  ELSE LET sq == F1Field_square(order, res)
       IN pow_loop(order, base, bits, i - 1,
                   IF bits[i] = 1 THEN F1Field_mul(order, sq, base) ELSE sq)

\* Mutation of F1Field::pow: the accumulator starts from one.
F1Field_pow_from_one(order, base0, exp0) ==
  IF scalar_is_zero(exp0) THEN F1Field_one
  ELSE LET base == IF exp0 < F1Field_zero THEN F1Field_inv(order, base0) ELSE base0
           exp  == IF exp0 < F1Field_zero THEN -exp0 ELSE exp0
           bits == scalar_bits(exp).res
       IN IF bits = <<>> THEN F1Field_one
          ELSE pow_loop(order, base, bits, Len(bits) - 1, F1Field_one)

\* pow(base, exp); the caller guarantees base # 0 when exp < 0 (inv panics).
F1Field_pow(order, base0, exp0) ==
  IF scalar_is_zero(exp0) THEN F1Field_one
  ELSE LET base == IF exp0 < F1Field_zero THEN F1Field_inv(order, base0) ELSE base0
           exp  == IF exp0 < F1Field_zero THEN -exp0 ELSE exp0
           bits == scalar_bits(exp).res
       IN IF bits = <<>> THEN F1Field_one
          ELSE pow_loop(order, base, bits, Len(bits) - 1, base)

\* ------------------------------------------------------------------------
\* utils/src/conversions.rs.  Option<usize>: None is <<>>, Some(s) is <<s>>.
\* Result: [st |-> "ok", val |-> v] or [st |-> "err", val |-> <<>>]; a call
\* that panics has st = "panic", one that never returns st = "diverge".
\* ------------------------------------------------------------------------
Some(v) == <<v>>
None == <<>>
Ok(v) == [st |-> "ok", val |-> v]
Err == [st |-> "err", val |-> <<>>]
Panic == [st |-> "panic", val |-> <<>>]
Diverge == [st |-> "diverge", val |-> <<>>]
IsOk(res) == res.st = "ok"

\* BigInt::to_bytes_le().1: the magnitude, least significant byte first,
\* no trailing zero byte; zero is the single byte 0.
RECURSIVE mag_bytes_le(_)
mag_bytes_le(v) ==
  IF v < Byte THEN <<v>> ELSE <<v % Byte>> \o mag_bytes_le(v \div Byte)

to_bytes_le(value) == mag_bytes_le(Abs(value))

RECURSIVE zeros(_)
zeros(n) == IF n <= 0 THEN <<>> ELSE <<0>> \o zeros(n - 1)

RECURSIVE le_bytes_to_big_int(_)
le_bytes_to_big_int(bytes) ==
  IF bytes = <<>> THEN 0 ELSE Head(bytes) + Byte * le_bytes_to_big_int(Tail(bytes))

big_int_to_le_bytes(value, size) ==
  LET bytes == to_bytes_le(value)
      min_size == Len(bytes)
  IN IF size # None /\ size[1] < min_size THEN Err
     ELSE IF size # None THEN Ok(bytes \o zeros(size[1] - min_size))
     ELSE Ok(bytes)

\* BigInt::to_bytes_be().1: the magnitude, most significant byte first.
RECURSIVE mag_bytes_be(_)
mag_bytes_be(v) ==
  IF v < Byte THEN <<v>> ELSE mag_bytes_be(v \div Byte) \o <<v % Byte>>

RECURSIVE be_bytes_to_big_int(_)
be_bytes_to_big_int(bytes) ==
  IF bytes = <<>> THEN 0
  ELSE Byte * be_bytes_to_big_int(SubSeq(bytes, 1, Len(bytes) - 1)) + bytes[Len(bytes)]

big_int_to_be_bytes(value, size) ==
  LET bytes == mag_bytes_be(Abs(value))
      min_size == Len(bytes)
  IN IF size # None /\ size[1] < min_size THEN Err
     ELSE IF size # None THEN Ok(zeros(size[1] - min_size) \o bytes)
     ELSE Ok(bytes)

\* Hexadecimal.  A string is a sequence of one-character strings.
\* to_str_radix(16) writes the digits of HexDigits, most significant first,
\* after a "-" for a negative value.
HexDigits ==
  <<"0", "1", "2", "3", "4", "5", "6", "7", "8", "9", "a", "b", "c", "d", "e", "f">>
UpperDigits == <<"A", "B", "C", "D", "E", "F">>

RECURSIVE to_str_radix(_)
to_str_radix(value) ==
  IF value < 0 THEN <<"-">> \o to_str_radix(-value)
  ELSE IF value < 16 THEN <<HexDigits[value + 1]>>
  ELSE to_str_radix(value \div 16) \o <<HexDigits[(value % 16) + 1]>>

big_int_to_hex(value) ==
  LET hex == to_str_radix(value)
  IN IF Len(hex) % 2 # 0 THEN <<"0">> \o hex ELSE hex

\* The value of a digit of either case in radix 16, -1 for another character.
digit_value(c) ==
  IF \E i \in 1..16 : HexDigits[i] = c
  THEN (CHOOSE i \in 1..16 : HexDigits[i] = c) - 1
  ELSE IF \E i \in 1..6 : UpperDigits[i] = c
  THEN (CHOOSE i \in 1..6 : UpperDigits[i] = c) + 9
  ELSE -1

\* BigInt::parse_bytes(.., 16) on strings without sign or underscore: None
\* for the empty string and for a character that is no digit.
RECURSIVE parse_digits(_, _)
parse_digits(s, acc) ==
  IF s = <<>> THEN acc
  ELSE IF digit_value(Head(s)) < 0 THEN -1
  ELSE parse_digits(Tail(s), 16 * acc + digit_value(Head(s)))

parse_bytes(s) ==
  IF s = <<>> \/ parse_digits(s, 0) < 0 THEN None ELSE Some(parse_digits(s, 0))

starts_with(s, prefix) ==
  Len(s) >= Len(prefix) /\ SubSeq(s, 1, Len(prefix)) = prefix

\* str::trim_start_matches("0x"): every repetition of the prefix goes.
RECURSIVE trim_start_matches(_)
trim_start_matches(s) ==
  IF starts_with(s, <<"0", "x">>) THEN trim_start_matches(SubSeq(s, 3, Len(s)))
  ELSE s

hex_to_big_int(value) ==
  LET formatted == IF starts_with(value, <<"0", "x">>) \/ starts_with(value, <<"0", "X">>)
                   THEN value ELSE <<"0", "x">> \o value
      parsed == parse_bytes(trim_start_matches(formatted))
  IN IF parsed = None THEN Err ELSE Ok(parsed[1])

\* Fr.e(le_bytes_to_bigint(b)) for a digest b of 2*BufLen bytes, whose
\* integer does not fit TLC's 32 bits: the same residue, by Horner's rule.
RECURSIVE le_bytes_mod(_, _)
le_bytes_mod(bytes, m) ==
  IF bytes = <<>> THEN 0
  ELSE (Head(bytes) + Byte * le_bytes_mod(Tail(bytes), m)) % m

\* ------------------------------------------------------------------------
\* baby_jubjub/src/sqrt.rs
\* ------------------------------------------------------------------------
sqrt_s == 7
sqrt_z == 11641
sqrt_tm1d2 == 47

RECURSIVE ts_find_k(_, _, _)
ts_find_k(order, b2k, k) ==
  IF F1Field_eq(b2k, F1Field_one) THEN k
  ELSE ts_find_k(order, F1Field_square(order, b2k), k + 1)

RECURSIVE ts_square_times(_, _, _)
ts_square_times(order, w, n) ==
  IF n <= 0 THEN w ELSE ts_square_times(order, F1Field_square(order, w), n - 1)

RECURSIVE ts_loop(_, _, _, _, _)
ts_loop(order, v, x, b, z) ==
  IF F1Field_eq(b, F1Field_one) THEN x
  ELSE LET k  == ts_find_k(order, F1Field_square(order, b), 1)
           w  == ts_square_times(order, z, v - k - 1)
           z2 == F1Field_square(order, w)
       IN ts_loop(order, k, F1Field_mul(order, x, w), F1Field_mul(order, b, z2), z2)

\* Mutation of tonelli_shanks: the root the loop ends with, whatever its
\* sign.
tonelli_shanks_any_root(n, order) ==
  IF F1Field_is_zero(n) THEN Some(F1Field_zero)
  ELSE LET w  == F1Field_pow(order, n, sqrt_tm1d2)
           a0 == F1Field_pow(order, F1Field_mul(order, F1Field_square(order, w), n),
                             Pow2(sqrt_s - 1))
       IN IF F1Field_eq(a0, F1Field_negone(order)) THEN None
          ELSE LET x0 == F1Field_mul(order, n, w)
               IN Some(ts_loop(order, sqrt_s, x0, F1Field_mul(order, x0, w), sqrt_z))

tonelli_shanks(n, order) ==
  IF F1Field_is_zero(n) THEN Some(F1Field_zero)
  ELSE LET w  == F1Field_pow(order, n, sqrt_tm1d2)
           a0 == F1Field_pow(order, F1Field_mul(order, F1Field_square(order, w), n),
                             Pow2(sqrt_s - 1))
       IN IF F1Field_eq(a0, F1Field_negone(order)) THEN None
          ELSE LET x0 == F1Field_mul(order, n, w)
                   x  == ts_loop(order, sqrt_s, x0, F1Field_mul(order, x0, w), sqrt_z)
               IN Some(IF F1Field_geq(order, x, F1Field_zero) THEN x
                       ELSE F1Field_neg(order, x))

\* ------------------------------------------------------------------------
\* baby_jubjub/src/lib.rs.  A Point is <<x, y>>.
\* ------------------------------------------------------------------------
Fr == R
SUBORDER == scalar_shift_right(ORDER, 3)
BASE8 == <<F1Field_e(Fr, 10428), F1Field_e(Fr, 60)>>
A == F1Field_e(Fr, 140)
D == F1Field_e(Fr, 136)

\* Outcomes of a call that does not return a point
Panicked == <<"panic">>
Diverged == <<"diverge">>
IsPoint(p) == Len(p) = 2

\* Mutation of add_point: the denominator of y is 1 + dtau instead of
\* 1 - dtau.
add_point_same_den(p1, p2) ==
  LET beta  == F1Field_mul(Fr, p1[1], p2[2])
      gamma == F1Field_mul(Fr, p1[2], p2[1])
      delta == F1Field_mul(Fr, F1Field_sub(Fr, p1[2], F1Field_mul(Fr, A, p1[1])),
                           F1Field_add(Fr, p2[1], p2[2]))
      dtau  == F1Field_mul(Fr, D, F1Field_mul(Fr, beta, gamma))
      den   == F1Field_add(Fr, F1Field_one, dtau)
  IN IF F1Field_inv_panics(den) THEN Panicked
     ELSE <<F1Field_div(Fr, F1Field_add(Fr, beta, gamma), den),
            F1Field_div(Fr, F1Field_add(Fr, delta,
                               F1Field_sub(Fr, F1Field_mul(Fr, A, beta), gamma)), den)>>

add_point(p1, p2) ==
  LET beta  == F1Field_mul(Fr, p1[1], p2[2])
      gamma == F1Field_mul(Fr, p1[2], p2[1])
      delta == F1Field_mul(Fr, F1Field_sub(Fr, p1[2], F1Field_mul(Fr, A, p1[1])),
                           F1Field_add(Fr, p2[1], p2[2]))
      tau   == F1Field_mul(Fr, beta, gamma)
      dtau  == F1Field_mul(Fr, D, tau)
      den_x == F1Field_add(Fr, F1Field_one, dtau)
      den_y == F1Field_sub(Fr, F1Field_one, dtau)
  IN IF F1Field_inv_panics(den_x) \/ F1Field_inv_panics(den_y) THEN Panicked
     ELSE <<F1Field_div(Fr, F1Field_add(Fr, beta, gamma), den_x),
            F1Field_div(Fr, F1Field_add(Fr, delta,
                               F1Field_sub(Fr, F1Field_mul(Fr, A, beta), gamma)), den_y)>>

\* The double-and-add loop.  It leaves only when e reaches zero; a shift
\* that leaves e unchanged (e = -1) means it never does.
RECURSIVE mul_loop(_, _, _)
mul_loop(res, exp, e) ==
  IF scalar_is_zero(e) THEN res
  ELSE LET res2 == IF scalar_is_odd(e) THEN add_point(res, exp) ELSE res
           exp2 == add_point(exp, exp)
           e2   == scalar_shift_right(e, 1)
       IN IF ~IsPoint(res2) THEN res2
          ELSE IF ~IsPoint(exp2) THEN exp2
          ELSE IF e2 = e THEN Diverged
          ELSE mul_loop(res2, exp2, e2)

\* Mutation of mul_point_escalar: the accumulator starts from base.
mul_point_escalar_from_base(base, e) == mul_loop(base, base, e)

mul_point_escalar(base, e) == mul_loop(<<F1Field_zero, F1Field_one>>, base, e)

in_curve(p) ==
  LET x2 == F1Field_square(Fr, p[1])
      y2 == F1Field_square(Fr, p[2])
  IN F1Field_eq(F1Field_add(Fr, F1Field_mul(Fr, A, x2), y2),
                F1Field_add(Fr, F1Field_one, F1Field_mul(Fr, F1Field_mul(Fr, x2, y2), D)))

\* buffer[BufLen - 1] |= 0x80 and &= 0x7f on a byte sequence
SetTopBit(buffer) ==
  [buffer EXCEPT ![BufLen] = IF @ >= 128 THEN @ ELSE @ + 128]
ClearTopBit(buffer) ==
  [buffer EXCEPT ![BufLen] = @ % 128]

\* pack_point unwraps the encoding of y: it panics when y needs more than
\* BufLen bytes.
pack_point_panics(p) == ~IsOk(big_int_to_le_bytes(p[2], Some(BufLen)))

\* Mutation of pack_point: the sign bit of x is never set.
pack_point_unsigned(p) ==
  le_bytes_to_big_int(big_int_to_le_bytes(p[2], Some(BufLen)).val)

pack_point(p) ==
  LET buffer == big_int_to_le_bytes(p[2], Some(BufLen)).val
  IN le_bytes_to_big_int(IF F1Field_lt(Fr, p[1], F1Field_zero)
                         THEN SetTopBit(buffer) ELSE buffer)

\* Option<Point>: None or Some(<<x, y>>)
unpack_point(packed) ==
  LET enc == big_int_to_le_bytes(packed, Some(BufLen))
  IN IF ~IsOk(enc) THEN None
     ELSE LET sign   == enc.val[BufLen] >= 128
              buffer == IF sign THEN ClearTopBit(enc.val) ELSE enc.val
              y      == le_bytes_to_big_int(buffer)
          IN IF scalar_gt(y, R) THEN None
             ELSE LET y2  == F1Field_square(Fr, y)
                      den == F1Field_sub(Fr, A, F1Field_mul(Fr, D, y2))
                      num == F1Field_sub(Fr, F1Field_one, y2)
                  IN IF F1Field_inv_panics(den) THEN Some(Panicked)
                     ELSE LET root == tonelli_shanks(F1Field_div(Fr, num, den), R)
                          IN IF root = None THEN None
                             ELSE Some(<<IF sign THEN F1Field_neg(Fr, root[1])
                                         ELSE root[1], y>>)

\* ------------------------------------------------------------------------
\* External hashes.  blake::hash(512, ..) and light_poseidon's circom
\* Poseidon of width 2 are other crates' code: each is a fixed deterministic
\* function here, a 2*BufLen-byte digest of a byte string and a field
\* element of two field elements.
\* ------------------------------------------------------------------------
RECURSIVE blake_fold(_, _, _)
blake_fold(h, m, bytes) ==
  IF bytes = <<>> THEN h
  ELSE blake_fold((h * m + Head(bytes) + 1) % 65536, m, Tail(bytes))

blake_word(seed, m, bytes) ==
  LET h == blake_fold(seed, m, bytes)
      g == (h * 251 + (h \div 256) + Len(bytes)) % 65536
  IN (g * 113 + (g \div 64)) % 65536

blake512(message) ==
  LET w1 == blake_word(40503, 131, message)
      w2 == blake_word(27183, 137, message)
  IN <<w1 % Byte, w1 \div Byte, w2 % Byte, w2 \div Byte>>

poseidon_pow5(x) ==
  LET x2 == MulRem(x, x, R) IN MulRem(MulRem(x2, x2, R), x, R)

poseidon_hash2(input1, input2) ==
  LET s1 == poseidon_pow5((input1 + 7) % R)
      s2 == poseidon_pow5((input2 + s1 + 11) % R)
  IN poseidon_pow5((s1 + MulRem(3, s2, R) + 5) % R)

\* ------------------------------------------------------------------------
\* eddsa_poseidon/src/util_functions.rs.  A Signature is [r8 |-> P, s |-> n]
\* ------------------------------------------------------------------------
prune_buffer(buff) ==
  LET b1 == [buff EXCEPT ![1] = (@ \div 8) * 8]
      b2 == [b1 EXCEPT ![BufLen] = @ % 128]
  IN [b2 EXCEPT ![BufLen] = IF (@ \div 64) % 2 = 1 THEN @ ELSE @ + 64]

hash_input(message) == blake512(message)

\* ------------------------------------------------------------------------
\* eddsa_poseidon/src/lib.rs
\* ------------------------------------------------------------------------
\* string_to_biguint(..).expect(..): parsing the decimal string of a negative
\* BigInt as a BigUint fails, and the expect panics.
string_to_biguint_panics(v) == v < 0

\* poseidon5 reads nodes[0] and nodes[1] only; Fr::from reduces modulo R.
poseidon5_panics(nodes) ==
  string_to_biguint_panics(nodes[1]) \/ string_to_biguint_panics(nodes[2])

\* Mutation of poseidon5: a hash that absorbs the five elements.
poseidon5_all_nodes(nodes) ==
  poseidon_hash2(poseidon_hash2(nodes[1] % R, nodes[2] % R),
                 poseidon_hash2(poseidon_hash2(nodes[3] % R, nodes[4] % R),
                                nodes[5] % R))

poseidon5(nodes) == poseidon_hash2(nodes[1] % R, nodes[2] % R)

\* prune_buffer takes its argument by value and returns the pruned copy;
\* the call's result is dropped, and hash is used as it was.
derive_secret_scalar(private_key) ==
  LET hash == SubSeq(hash_input(private_key), 1, BufLen)
      dropped == prune_buffer(hash)
  IN Ok(RemT(scalar_shift_right(le_bytes_to_big_int(hash), 3), SUBORDER))

derive_public_key(private_key) ==
  LET s == derive_secret_scalar(private_key)
  IN Ok(mul_point_escalar(BASE8, s.val))

\* The tail of sign_message: hm and S once s, r, A and R8 are known.
sign_message_finish(s, r, a, r8, msg_bigint) ==
  Ok([r8 |-> r8,
      s  |-> F1Field_add(Fr, r,
               F1Field_mul(Fr, poseidon5(<<r8[1], r8[2], a[1], a[2], msg_bigint>>), s))])

\* prune_buffer(s.clone()) is called and its result dropped: s is the
\* integer of the unpruned first half of the hash.
sign_message(private_key, message) ==
  LET hash       == hash_input(private_key)
      s_bytes    == SubSeq(hash, 1, BufLen)
      dropped    == prune_buffer(s_bytes)
      s          == le_bytes_to_big_int(s_bytes)
      msg_bigint == le_bytes_to_big_int(message)
      msg_buff   == big_int_to_le_bytes(msg_bigint, Some(BufLen))
  IN IF ~IsOk(msg_buff) THEN Err
     ELSE LET r_buff == hash_input(SubSeq(hash, BufLen + 1, 2 * BufLen) \o msg_buff.val)
              r      == le_bytes_mod(r_buff, R)
          IN sign_message_finish(s, r,
               mul_point_escalar(BASE8, scalar_shift_right(s, 3)),
               mul_point_escalar(BASE8, r), msg_bigint)

\* The tail of verify_signature: the comparison of p_left with
\* p_right = R8 + hp, once the two scalar multiplications are known.
verify_signature_compare(p_left, p_right) ==
  IF ~IsPoint(p_right) THEN Panic
  ELSE Ok(F1Field_eq(p_left[1], p_right[1]) /\ F1Field_eq(p_left[2], p_right[2]))

verify_signature_equation(r8, p_left, hp) ==
  IF p_left = Diverged THEN Diverge
  ELSE IF p_left = Panicked THEN Panic
  ELSE IF hp = Diverged THEN Diverge
  ELSE IF hp = Panicked THEN Panic
  ELSE verify_signature_compare(p_left, add_point(r8, hp))

verify_signature(message, signature, public_key) ==
  IF ~in_curve(signature.r8) \/ ~in_curve(public_key) THEN Ok(FALSE)
  ELSE LET message_bigint == le_bytes_to_big_int(message)
           nodes == <<signature.r8[1], signature.r8[2],
                      public_key[1], public_key[2], message_bigint>>
       IN IF poseidon5_panics(nodes) THEN Panic
          ELSE verify_signature_equation(signature.r8,
                 mul_point_escalar(BASE8, signature.s),
                 mul_point_escalar(public_key, scalar_mul(poseidon5(nodes), 8)))

pack_public_key(public_key) ==
  IF ~in_curve(public_key) THEN Err
  ELSE IF pack_point_panics(public_key) THEN Panic
  ELSE Ok(pack_point(public_key))

unpack_public_key(packed) ==
  LET p == unpack_point(packed)
  IN IF p = None THEN Err ELSE Ok(p[1])

\* Mutation of pack_signature: S is written before R8.
pack_signature_swapped(sig) ==
  IF ~in_curve(sig.r8) \/ sig.s >= SUBORDER THEN Err
  ELSE IF pack_point_panics(sig.r8) THEN Panic
  ELSE IF ~IsOk(big_int_to_le_bytes(sig.s, Some(BufLen))) THEN Err
  ELSE Ok(big_int_to_le_bytes(sig.s, Some(BufLen)).val
          \o big_int_to_le_bytes(pack_point(sig.r8), Some(BufLen)).val)

pack_signature(sig) ==
  IF ~in_curve(sig.r8) \/ sig.s >= SUBORDER THEN Err
  ELSE IF pack_point_panics(sig.r8) THEN Panic
  ELSE LET r8_bytes == big_int_to_le_bytes(pack_point(sig.r8), Some(BufLen))
           s_bytes  == big_int_to_le_bytes(sig.s, Some(BufLen))
       IN IF ~IsOk(r8_bytes) \/ ~IsOk(s_bytes) THEN Err
          ELSE Ok(r8_bytes.val \o s_bytes.val)

\* The tail of unpack_signature: ok_or_else on the unpacked R8, then S.
unpack_signature_build(r8, s) ==
  IF r8 = None THEN Err
  ELSE IF r8 = Some(Panicked) THEN Panic
  ELSE Ok([r8 |-> r8[1], s |-> s])

\* Mutation of unpack_signature: S >= SUBORDER is rejected as well.
unpack_signature_checked(packed) ==
  IF Len(packed) # 2 * BufLen THEN Err
  ELSE IF le_bytes_to_big_int(SubSeq(packed, BufLen + 1, 2 * BufLen)) >= SUBORDER
  THEN Err
  ELSE unpack_signature_build(
         unpack_point(le_bytes_to_big_int(SubSeq(packed, 1, BufLen))),
         le_bytes_to_big_int(SubSeq(packed, BufLen + 1, 2 * BufLen)))

unpack_signature(packed) ==
  IF Len(packed) # 2 * BufLen THEN Err
  ELSE unpack_signature_build(
         unpack_point(le_bytes_to_big_int(SubSeq(packed, 1, BufLen))),
         le_bytes_to_big_int(SubSeq(packed, BufLen + 1, 2 * BufLen)))

\* ------------------------------------------------------------------------
\* utils/src/conversions.rs: base64 (the crate's STANDARD engine: standard
\* alphabet, padding written and required, trailing bits must be zero).
\* A base64 string is a sequence of alphabet indices 0..63, Pad for '='.
\* identity/src/lib.rs calls these buffer_to_base64 and base64_to_buffer.
\* ------------------------------------------------------------------------
Pad == 64

RECURSIVE b64_encode(_)
b64_encode(bytes) ==
  IF bytes = <<>> THEN <<>>
  ELSE IF Len(bytes) = 1 THEN
    <<bytes[1] \div 4, (bytes[1] % 4) * 16, Pad, Pad>>
  ELSE IF Len(bytes) = 2 THEN
    <<bytes[1] \div 4, (bytes[1] % 4) * 16 + bytes[2] \div 16, (bytes[2] % 16) * 4, Pad>>
  ELSE <<bytes[1] \div 4, (bytes[1] % 4) * 16 + bytes[2] \div 16,
         (bytes[2] % 16) * 4 + bytes[3] \div 64, bytes[3] % 64>>
       \o b64_encode(SubSeq(bytes, 4, Len(bytes)))

\* Decoding returns Ok(bytes) or Err.
RECURSIVE b64_decode(_)
b64_decode(str) ==
  IF str = <<>> THEN Ok(<<>>)
  ELSE IF Len(str) < 4 THEN Err
  ELSE LET a == str[1]
           b == str[2]
           c == str[3]
           d == str[4]
           last == Len(str) = 4
       IN IF a = Pad \/ b = Pad THEN Err
          ELSE IF c = Pad THEN
            IF last /\ d = Pad /\ b % 16 = 0 THEN Ok(<<a * 4 + b \div 16>>) ELSE Err
          ELSE IF d = Pad THEN
            IF last /\ c % 4 = 0
            THEN Ok(<<a * 4 + b \div 16, (b % 16) * 16 + c \div 4>>) ELSE Err
          ELSE LET rest == b64_decode(SubSeq(str, 5, Len(str)))
               IN IF ~IsOk(rest) THEN Err
                  ELSE Ok(<<a * 4 + b \div 16, (b % 16) * 16 + c \div 4, (c % 4) * 64 + d>>
                          \o rest.val)

bytes_to_base64(bytes) == b64_encode(bytes)

\* Mutation of base64_to_bytes: the decoder loses the last byte.
base64_to_bytes_short(str) ==
  IF IsOk(b64_decode(str)) /\ b64_decode(str).val # <<>>
  THEN Ok(SubSeq(b64_decode(str).val, 1, Len(b64_decode(str).val) - 1))
  ELSE b64_decode(str)

base64_to_bytes(str) == b64_decode(str)

\* text is a str: its bytes are as_bytes()
text_to_base64(text) == b64_encode(text)

\* std::str::from_utf8 succeeds exactly on well-formed UTF-8
IsCont(b) == b >= 128 /\ b <= 191

RECURSIVE utf8_valid(_)
utf8_valid(bytes) ==
  IF bytes = <<>> THEN TRUE
  ELSE LET b == bytes[1]
           n == Len(bytes)
       IN IF b < 128 THEN utf8_valid(Tail(bytes))
          ELSE IF b >= 194 /\ b <= 223 THEN
            n >= 2 /\ IsCont(bytes[2]) /\ utf8_valid(SubSeq(bytes, 3, n))
          ELSE IF b >= 224 /\ b <= 239 THEN
            /\ n >= 3
            /\ IsCont(bytes[2]) /\ IsCont(bytes[3])
            /\ (b = 224 => bytes[2] >= 160)
            /\ (b = 237 => bytes[2] <= 159)
            /\ utf8_valid(SubSeq(bytes, 4, n))
          ELSE IF b >= 240 /\ b <= 244 THEN
            /\ n >= 4
            /\ IsCont(bytes[2]) /\ IsCont(bytes[3]) /\ IsCont(bytes[4])
            /\ (b = 240 => bytes[2] >= 144)
            /\ (b = 244 => bytes[2] <= 143)
            /\ utf8_valid(SubSeq(bytes, 5, n))
          ELSE FALSE

\* ------------------------------------------------------------------------
\* identity/src/lib.rs.  An Identity is
\* [private_key, secret_scalar, public_key, commitment].
\* ------------------------------------------------------------------------
poseidon2(nodes) == poseidon_hash2(nodes[1] % R, nodes[2] % R)

\* The Ok(Self { .. }) of new, once the key and what is derived from it are
\* known; derive_secret_scalar and derive_public_key never return Err.
Identity_new_build(private_key, secret_scalar, public_key) ==
  Ok([private_key   |-> private_key,
      secret_scalar |-> secret_scalar.val,
      public_key    |-> public_key.val,
      commitment    |-> poseidon2(<<public_key.val[1], public_key.val[2]>>)])

Identity_new_from(private_key) ==
  Identity_new_build(private_key, derive_secret_scalar(private_key),
                     derive_public_key(private_key))

\* Mutation of Identity::new: the random key is kept even when one is given.
Identity_new_random(private_key, key) == Identity_new_from(key)

\* private_key is the caller's Option<Vec<u8>>; key is what rng.fill wrote.
Identity_new(private_key, key) ==
  Identity_new_from(IF private_key = None THEN key ELSE private_key[1])

Identity_private_key(self) == self.private_key
Identity_secret_scalar(self) == self.secret_scalar
Identity_public_key(self) == self.public_key
Identity_commitment(self) == self.commitment

Identity_export(self) ==
  IF utf8_valid(self.private_key) THEN text_to_base64(self.private_key)
  ELSE bytes_to_base64(self.private_key)

\* Identity::new draws its random bytes even when a key is given
Identity_import(encoded, key) ==
  LET private_key == base64_to_bytes(encoded)
  IN IF ~IsOk(private_key) THEN Err
     ELSE Identity_new(Some(private_key.val), key)

Identity_sign_message(self, msg) == sign_message(self.private_key, msg)

Identity_verify_signature(msg, sig, pk) == verify_signature(msg, sig, pk)

Identity_generate_commitment(pk) == poseidon2(<<pk[1], pk[2]>>)

\* ------------------------------------------------------------------------
\* Inputs
\* ------------------------------------------------------------------------
MaxKeyLen == 1
MaxMsgLen == 3
MaxIdKeyLen == 3
MaxPointK == 300
MaxOver == 3
MaxNonce == 2

SeqsUpTo(S, n) == UNION {[1..k -> S] : k \in 0..n}

KeyBytes == {65, 255}
MsgBytes == {0, 2}
IdKeyBytes == {195, 169}
RandomBytes == {7, 200}

PrivateKeys == SeqsUpTo(KeyBytes, MaxKeyLen)
Messages == SeqsUpTo(MsgBytes, MaxMsgLen)
IdentityKeys == SeqsUpTo(IdKeyBytes, MaxIdKeyLen)
RandomKeys == [1..BufLen -> RandomBytes]
SignedMessages == {<<>>, <<2, 0>>}

\* base64 text that is not the output of export
ForeignEncodings == {<<16, 16>>, <<16, 17, Pad, Pad>>, <<16, 16, 1, Pad>>}

\* A generator of the whole curve group (order ORDER); BASE8 is 8 times it.
Generator == <<3986, 2>>
CurvePoints ==
  {mul_point_escalar(Generator, k) : k \in 0..MaxPointK}
  \cup {mul_point_escalar(Generator, k * SUBORDER) : k \in 0..7}

\* Packed values a caller may hand to unpack_point: y around R with either
\* sign bit, and one value that needs more than BufLen bytes.
TopBit == Pow2(8 * BufLen - 1)
PackedCandidates ==
  {R - 1 + k : k \in 0..(MaxOver + 1)}
  \cup {TopBit + R - 1 + k : k \in 0..(MaxOver + 1)}
  \cup {2 * TopBit}

\* The smallest multiple of R that does not fit BufLen bytes
Wide == ((2 * TopBit) \div R + 1) * R

\* Byte strings a caller may hand to unpack_signature: every length up to
\* 2*BufLen + MaxExtraLen, over bytes that spell y = 0, y = R (129, 47),
\* the sign bit (175 = 47 + 128) and values between.
MaxExtraLen == 1
PackedBytes == {0, 47, 129, 175}
PackedSignatures == SeqsUpTo(PackedBytes, 2 * BufLen + MaxExtraLen)

\* Signatures a caller may hand to pack_signature: R8 a canonical point of
\* the curve, S around the byte boundary and around SUBORDER.
MaxScalarOver == 1
SignatureScalars ==
  {0, 1, Byte - 1, Byte} \cup {SUBORDER - 1 + k : k \in 0..MaxScalarOver}
Signatures == {[r8 |-> p, s |-> n] : p \in CurvePoints, n \in SignatureScalars}

\* What a caller can do to the fields of a Signature (they are public)
TamperedSignatures(sig) ==
  { [sig EXCEPT !.r8[2] = 3],
    [sig EXCEPT !.r8[1] = @ - R],
    [sig EXCEPT !.r8[2] = @ + Wide],
    [sig EXCEPT !.s = -1],
    [sig EXCEPT !.s = @ % SUBORDER],
    [sig EXCEPT !.s = -(2 * TopBit)] }

TamperedPoints(p) ==
  { <<p[1], F1Field_add(Fr, p[2], 1)>>, <<p[1] - R, p[2]>> }

\* A signature that satisfies the verification equation for the public key
\* of sk, as the holder of the key can build it for a nonce r:
\* S = r + 8 * hm * a (mod SUBORDER), a the secret scalar.
accepted_signature(sk, r) ==
  LET a  == derive_secret_scalar(sk).val
      r8 == mul_point_escalar(BASE8, r)
      hm == poseidon5(<<r8[1], r8[2], 0, 0, 0>>)
  IN [r8 |-> r8, s |-> (r + MulRem(8 * hm, a, SUBORDER)) % SUBORDER]

Call(op, res) == [op |-> op, st |-> res.st, val |-> res.val]
Start == [op |-> "init", st |-> "ok", val |-> <<>>]

\* ------------------------------------------------------------------------
\* EdDSA session (Spec): derive, sign, tamper or supply, verify, pack
\* ------------------------------------------------------------------------
IdentityIdle ==
  given = None /\ identity = None /\ exported = None /\ imported = None

PointIdle ==
  curPoint = <<0, 1>> /\ curPacked = None /\ packed_src = "none"

SessionIdle ==
  /\ sessKey = <<>> /\ sessMsg = <<>>
  /\ sessSig = None /\ sig_src = "none"
  /\ sessPk = None /\ pk_src = "none"

Init ==
  /\ sessKey \in PrivateKeys
  /\ sessMsg \in Messages
  /\ sessSig = None /\ sig_src = "none"
  /\ sessPk = None /\ pk_src = "none"
  /\ ret = Start
  /\ IdentityIdle /\ PointIdle

DeriveSecretScalar ==
  /\ ret.op = "init"
  /\ ret' = Call("derive_secret_scalar", derive_secret_scalar(sessKey))
  /\ UNCHANGED <<eddsa_vars, identity_vars, point_vars>>

DerivePublicKey ==
  /\ ret.op = "derive_secret_scalar"
  /\ ret' = Call("derive_public_key", derive_public_key(sessKey))
  /\ sessPk' = Some(ret'.val)
  /\ pk_src' = "derived"
  /\ UNCHANGED <<sessKey, sessMsg, sessSig, sig_src, identity_vars, point_vars>>

SignMessage ==
  /\ ret.op = "derive_public_key"
  /\ ret' = Call("sign_message", sign_message(sessKey, sessMsg))
  /\ sessSig' = IF IsOk(ret') THEN Some(ret'.val) ELSE None
  /\ sig_src' = IF IsOk(ret') THEN "signed" ELSE "none"
  /\ UNCHANGED <<sessKey, sessMsg, sessPk, pk_src, identity_vars, point_vars>>

TamperSignature ==
  /\ ret.op = "sign_message"
  /\ sig_src = "signed" /\ pk_src = "derived"
  /\ \E sig \in TamperedSignatures(sessSig[1]) :
       /\ sig # sessSig[1]
       /\ sessSig' = Some(sig)
  /\ sig_src' = "tampered"
  /\ UNCHANGED <<sessKey, sessMsg, sessPk, pk_src, ret, identity_vars, point_vars>>

SupplySignature ==
  /\ ret.op = "sign_message"
  /\ sig_src \in {"none", "signed"} /\ pk_src = "derived"
  /\ \E r \in 1..MaxNonce :
       sessSig' = Some(accepted_signature(sessKey, r))
  /\ sig_src' = "supplied"
  /\ UNCHANGED <<sessKey, sessMsg, sessPk, pk_src, ret, identity_vars, point_vars>>

TamperPublicKey ==
  /\ ret.op = "sign_message"
  /\ pk_src = "derived" /\ sig_src \in {"signed", "supplied"}
  /\ \E p \in TamperedPoints(sessPk[1]) : sessPk' = Some(p)
  /\ pk_src' = "tampered"
  /\ UNCHANGED <<sessKey, sessMsg, sessSig, sig_src, ret, identity_vars, point_vars>>

VerifySignature ==
  /\ ret.op = "sign_message"
  /\ sessSig # None /\ sessPk # None
  /\ ret' = Call("verify_signature",
                 verify_signature(sessMsg, sessSig[1], sessPk[1]))
  /\ UNCHANGED <<eddsa_vars, identity_vars, point_vars>>

PackSignature ==
  /\ ret.op \in {"sign_message", "verify_signature"}
  /\ sessSig # None
  /\ ret' = Call("pack_signature", pack_signature(sessSig[1]))
  /\ UNCHANGED <<eddsa_vars, identity_vars, point_vars>>

Next ==
  \/ DeriveSecretScalar
  \/ DerivePublicKey
  \/ SignMessage
  \/ TamperSignature
  \/ SupplySignature
  \/ TamperPublicKey
  \/ VerifySignature
  \/ PackSignature

Spec == Init /\ [][Next]_vars

\* ------------------------------------------------------------------------
\* Identity session (SpecIdentity): new from a given key or from the random
\* one, then the accessors, export, import, sign, verify and
\* generate_commitment.  ret.val of an import is the string it was given.
\* ------------------------------------------------------------------------
InitIdentity ==
  /\ given \in {None} \cup {Some(k) : k \in IdentityKeys}
  /\ identity = None /\ exported = None /\ imported = None
  /\ ret = Start
  /\ SessionIdle /\ PointIdle

IdNew ==
  /\ identity = None
  /\ \E key \in RandomKeys : ret' = Call("new", Identity_new(given, key))
  /\ identity' = Some(ret'.val)
  /\ UNCHANGED <<given, exported, imported, eddsa_vars, point_vars>>

IdPrivateKey ==
  /\ identity # None
  /\ ret' = Call("private_key", Ok(Identity_private_key(identity[1])))
  /\ UNCHANGED <<identity_vars, eddsa_vars, point_vars>>

IdSecretScalar ==
  /\ identity # None
  /\ ret' = Call("secret_scalar", Ok(Identity_secret_scalar(identity[1])))
  /\ UNCHANGED <<identity_vars, eddsa_vars, point_vars>>

IdPublicKey ==
  /\ identity # None
  /\ ret' = Call("public_key", Ok(Identity_public_key(identity[1])))
  /\ UNCHANGED <<identity_vars, eddsa_vars, point_vars>>

IdCommitment ==
  /\ identity # None
  /\ ret' = Call("commitment", Ok(Identity_commitment(identity[1])))
  /\ UNCHANGED <<identity_vars, eddsa_vars, point_vars>>

IdGenerateCommitment ==
  /\ identity # None
  /\ ret' = Call("generate_commitment",
                 Ok(Identity_generate_commitment(identity[1].public_key)))
  /\ UNCHANGED <<identity_vars, eddsa_vars, point_vars>>

IdExport ==
  /\ identity # None /\ exported = None
  /\ ret' = Call("export", Ok(Identity_export(identity[1])))
  /\ exported' = Some(ret'.val)
  /\ UNCHANGED <<given, identity, imported, eddsa_vars, point_vars>>

ImportReturns(encoded, res) ==
  /\ ret' = [op |-> "import", st |-> res.st, val |-> encoded]
  /\ imported' = IF IsOk(res) THEN Some(res.val) ELSE None

IdImport ==
  /\ identity # None /\ imported = None
  /\ ret.op \in {"new", "export"}
  /\ \E encoded \in {exported[i] : i \in DOMAIN exported} \cup ForeignEncodings :
       \E key \in RandomKeys :
         ImportReturns(encoded, Identity_import(encoded, key))
  /\ UNCHANGED <<given, identity, exported, eddsa_vars, point_vars>>

IdSignMessage ==
  /\ identity # None /\ sessSig = None
  /\ ret.op \in {"new", "import"}
  /\ \E msg \in SignedMessages :
       /\ ret' = Call("sign_message", Identity_sign_message(identity[1], msg))
       /\ sessMsg' = msg
  /\ sessSig' = IF IsOk(ret') THEN Some(ret'.val) ELSE None
  /\ sig_src' = IF IsOk(ret') THEN "signed" ELSE "none"
  /\ UNCHANGED <<sessKey, sessPk, pk_src, identity_vars, point_vars>>

IdVerifySignature ==
  /\ identity # None /\ sessSig # None
  /\ ret.op = "sign_message"
  /\ ret' = Call("verify_signature",
                 Identity_verify_signature(sessMsg, sessSig[1],
                                           Identity_public_key(identity[1])))
  /\ UNCHANGED <<identity_vars, eddsa_vars, point_vars>>

NextIdentity ==
  \/ IdNew
  \/ IdPrivateKey
  \/ IdSecretScalar
  \/ IdPublicKey
  \/ IdCommitment
  \/ IdGenerateCommitment
  \/ IdExport
  \/ IdImport
  \/ IdSignMessage
  \/ IdVerifySignature

SpecIdentity == InitIdentity /\ [][NextIdentity]_vars

\* ------------------------------------------------------------------------
\* Point codec (SpecPoint): pack a canonical point of the curve, or take a
\* packed value from the caller, and unpack it.  ret.val of unpack_point is
\* the Option it returned.
\* ------------------------------------------------------------------------
InitPoint ==
  /\ curPoint \in CurvePoints
  /\ curPacked = None /\ packed_src = "none"
  /\ ret = Start
  /\ SessionIdle /\ IdentityIdle

PackPoint ==
  /\ packed_src = "none"
  /\ ~pack_point_panics(curPoint)
  /\ ret' = Call("pack_point", Ok(pack_point(curPoint)))
  /\ curPacked' = Some(ret'.val)
  /\ packed_src' = "packed"
  /\ UNCHANGED <<curPoint, eddsa_vars, identity_vars>>

SupplyPacked ==
  /\ packed_src = "none"
  /\ \E v \in PackedCandidates : curPacked' = Some(v)
  /\ packed_src' = "supplied"
  /\ UNCHANGED <<curPoint, ret, eddsa_vars, identity_vars>>

UnpackReturns(res) ==
  ret' = [op |-> "unpack_point",
          st |-> IF res = Some(Panicked) THEN "panic" ELSE "ok",
          val |-> res]

UnpackPoint ==
  /\ curPacked # None
  /\ ret.op # "unpack_point"
  /\ UnpackReturns(unpack_point(curPacked[1]))
  /\ UNCHANGED <<point_vars, eddsa_vars, identity_vars>>

PackPublicKey ==
  /\ ret.op = "unpack_point" /\ ret.val # None /\ ret.st = "ok"
  /\ ret' = Call("pack_public_key", pack_public_key(ret.val[1]))
  /\ UNCHANGED <<point_vars, eddsa_vars, identity_vars>>

NextPoint ==
  \/ PackPoint
  \/ SupplyPacked
  \/ UnpackPoint
  \/ PackPublicKey

SpecPoint == InitPoint /\ [][NextPoint]_vars

\* ------------------------------------------------------------------------
\* Signature codec (SpecSignature): pack a signature the caller holds, or
\* take 2*BufLen-or-so bytes from the caller, and unpack them.
\* ------------------------------------------------------------------------
InitSignature ==
  /\ sessSig \in {None} \cup {Some(sig) : sig \in Signatures}
  /\ sig_src = IF sessSig = None THEN "none" ELSE "supplied"
  /\ sessKey = <<>> /\ sessMsg = <<>> /\ sessPk = None /\ pk_src = "none"
  /\ ret = Start
  /\ IdentityIdle /\ PointIdle

SigPack ==
  /\ sessSig # None /\ packed_src = "none"
  /\ ret' = Call("pack_signature", pack_signature(sessSig[1]))
  /\ curPacked' = IF IsOk(ret') THEN Some(ret'.val) ELSE None
  /\ packed_src' = IF IsOk(ret') THEN "packed" ELSE "failed"
  /\ UNCHANGED <<curPoint, eddsa_vars, identity_vars>>

SigSupplyPacked ==
  /\ sessSig = None /\ packed_src = "none"
  /\ \E b \in PackedSignatures : curPacked' = Some(b)
  /\ packed_src' = "supplied"
  /\ UNCHANGED <<curPoint, ret, eddsa_vars, identity_vars>>

SigUnpack ==
  /\ curPacked # None
  /\ ret.op # "unpack_signature"
  /\ ret' = Call("unpack_signature", unpack_signature(curPacked[1]))
  /\ UNCHANGED <<point_vars, eddsa_vars, identity_vars>>

NextSignature ==
  \/ SigPack
  \/ SigSupplyPacked
  \/ SigUnpack

SpecSignature == InitSignature /\ [][NextSignature]_vars

\* ------------------------------------------------------------------------
\* Pure functions (SpecPure): one call of a function of the curve, the
\* field, the square root or the byte codecs on arguments from bounded
\* sets.  ret.val is [args |-> the arguments, res |-> what was returned].
\* ------------------------------------------------------------------------
Applied(op, args, res) ==
  [op |-> op, st |-> res.st, val |-> [args |-> args, res |-> res.val]]

PointResult(p) ==
  IF p = Diverged THEN Diverge ELSE IF p = Panicked THEN Panic ELSE Ok(p)

\* Scalars for BASE8: the small ones, those around SUBORDER, ORDER, and the
\* largest BufLen-byte integer.  Other points get 0, 1 and SUBORDER.
MaxScalarK == 40
BaseScalars ==
  0..MaxScalarK \cup {SUBORDER - 1, SUBORDER, SUBORDER + 1, ORDER, 2 * TopBit - 1}
LawScalars == {0, 1, SUBORDER}

InitPure ==
  /\ ret = Start
  /\ SessionIdle /\ IdentityIdle /\ PointIdle

CurveMulPointEscalar ==
  /\ ret = Start
  /\ \E p \in CurvePoints, e \in BaseScalars \cup LawScalars :
       /\ p = BASE8 \/ e \in LawScalars
       /\ ret' = Applied("mul_point_escalar", <<p, e>>,
                         PointResult(mul_point_escalar(p, e)))
  /\ UNCHANGED <<eddsa_vars, identity_vars, point_vars>>

CurveAddPoint ==
  /\ ret = Start
  /\ \E p \in {<<F1Field_zero, F1Field_one>>, BASE8}, q \in CurvePoints :
       ret' = Applied("add_point", <<p, q>>, PointResult(add_point(p, q)))
  /\ UNCHANGED <<eddsa_vars, identity_vars, point_vars>>

CurveDerivePublicKey ==
  /\ ret = Start
  /\ \E sk \in PrivateKeys \cup IdentityKeys :
       ret' = Applied("derive_public_key", <<sk>>, derive_public_key(sk))
  /\ UNCHANGED <<eddsa_vars, identity_vars, point_vars>>

\* Byte strings for the codecs; the largest has MaxCodecLen bytes and fits
\* a 32-bit integer.
MaxCodecLen == 3
CodecBytes == {0, 1, 127}
CodecStrings == SeqsUpTo(CodecBytes, MaxCodecLen)

\* bytes -> integer -> bytes of the same length (test_be_le_conversion).
CodecLeBytes ==
  /\ ret = Start
  /\ \E b \in CodecStrings :
       ret' = Applied("big_int_to_le_bytes", <<b>>,
                      big_int_to_le_bytes(le_bytes_to_big_int(b), Some(Len(b))))
  /\ UNCHANGED <<eddsa_vars, identity_vars, point_vars>>

CodecBeBytes ==
  /\ ret = Start
  /\ \E b \in CodecStrings :
       ret' = Applied("big_int_to_be_bytes", <<b>>,
                      big_int_to_be_bytes(be_bytes_to_big_int(b), Some(Len(b))))
  /\ UNCHANGED <<eddsa_vars, identity_vars, point_vars>>

\* The methods of Fr, the F1Field of order R.  inv panics on zero, and so
\* do div and pow where they call inv on zero.
FieldOps ==
  {"e", "add", "sub", "mul", "square", "neg", "div", "inv", "pow",
   "eq", "lt", "geq", "is_zero"}

F1Field_call(op, a, b) ==
  CASE op = "e"       -> Ok(F1Field_e(Fr, a))
    [] op = "add"     -> Ok(F1Field_add(Fr, a, b))
    [] op = "sub"     -> Ok(F1Field_sub(Fr, a, b))
    [] op = "mul"     -> Ok(F1Field_mul(Fr, a, b))
    [] op = "square"  -> Ok(F1Field_square(Fr, a))
    [] op = "neg"     -> Ok(F1Field_neg(Fr, a))
    [] op = "inv"     -> IF F1Field_inv_panics(a) THEN Panic
                         ELSE Ok(F1Field_inv(Fr, a))
    [] op = "div"     -> IF F1Field_inv_panics(b) THEN Panic
                         ELSE Ok(F1Field_div(Fr, a, b))
    [] op = "pow"     -> IF ~scalar_is_zero(b) /\ b < F1Field_zero
                            /\ F1Field_inv_panics(a) THEN Panic
                         ELSE Ok(F1Field_pow(Fr, a, b))
    [] op = "eq"      -> Ok(F1Field_eq(a, b))
    [] op = "lt"      -> Ok(F1Field_lt(Fr, a, b))
    [] op = "geq"     -> Ok(F1Field_geq(Fr, a, b))
    [] op = "is_zero" -> Ok(F1Field_is_zero(a))

\* Canonical elements: those next to 0, to half and to R - 1.
MaxElem == 3
FieldElements ==
  0..MaxElem \cup {F1Field_half(Fr), F1Field_half(Fr) + 1}
    \cup (R - 1 - MaxElem)..(R - 1)

\* Integers for e, on both sides of the multiples of R.
MaxWrap == 2
FieldIntegers == {k * R + d : k \in (-MaxWrap)..MaxWrap, d \in -1..1}

\* Exponents for pow.
MaxExp == 6
Exponents == (-MaxExp)..MaxExp \cup {R - 1, 1 - R, R, -R}

FieldArgs(op) ==
  CASE op = "e" -> FieldIntegers \X {0}
    [] op \in {"square", "neg", "inv", "is_zero"} -> FieldElements \X {0}
    [] op = "pow" -> FieldElements \X Exponents
    [] OTHER -> FieldElements \X FieldElements

FieldCall(op) ==
  /\ ret = Start
  /\ \E args \in FieldArgs(op) :
       ret' = Applied(op, args, F1Field_call(op, args[1], args[2]))
  /\ UNCHANGED <<eddsa_vars, identity_vars, point_vars>>

\* The square root of every element of the field.
SqrtTonelliShanks ==
  /\ ret = Start
  /\ \E n \in 0..(R - 1) :
       ret' = Applied("tonelli_shanks", <<n>>, Ok(tonelli_shanks(n, R)))
  /\ UNCHANGED <<eddsa_vars, identity_vars, point_vars>>

\* Five-element vectors for poseidon5: R8.x and R8.y below zero, canonical
\* and above R; A.x, A.y and msg of either sign.
Poseidon5Inputs ==
  {<<x, y, ax, ay, m>> : x \in {-1, 0, 1, R + 1}, y \in {-1, 0, 1, R + 1},
                         ax \in {-1, 0, 7}, ay \in {-1, 0, 7}, m \in {-1, 0, 7}}

Poseidon5Call ==
  /\ ret = Start
  /\ \E nodes \in Poseidon5Inputs :
       ret' = Applied("poseidon5", nodes,
                      IF poseidon5_panics(nodes) THEN Panic
                      ELSE Ok(poseidon5(nodes)))
  /\ UNCHANGED <<eddsa_vars, identity_vars, point_vars>>

\* Integers for the fixed-size encoders: of either sign, around the byte
\* boundaries; sizes 0..MaxCodecLen.
CodecValues ==
  {-Byte, -1, 0, 1, Byte - 1, Byte, Byte * Byte - 1, Byte * Byte}

CodecFixedSize(order) ==
  /\ ret = Start
  /\ \E value \in CodecValues, size \in 0..MaxCodecLen :
       ret' = Applied(order, <<value, size>>,
                      IF order = "le_fixed_size"
                      THEN big_int_to_le_bytes(value, Some(size))
                      ELSE big_int_to_be_bytes(value, Some(size)))
  /\ UNCHANGED <<eddsa_vars, identity_vars, point_vars>>

\* Strings for hex_to_big_int: up to MaxHexLen characters, digits of either
\* case, the letters of the prefixes and one character that is no digit.
MaxHexLen == 4
HexStrings == SeqsUpTo({"0", "x", "X", "f", "A", "g"}, MaxHexLen)

\* Integers for big_int_to_hex: the small ones and those around the powers
\* of 16.
MaxHexValue == 17
HexValues ==
  0..MaxHexValue \cup {Byte - 1, Byte, 16 * Byte - 1, 16 * Byte, Byte * Byte - 1}

HexToBigInt ==
  /\ ret = Start
  /\ \E value \in HexStrings :
       ret' = Applied("hex_to_big_int", <<value>>, hex_to_big_int(value))
  /\ UNCHANGED <<eddsa_vars, identity_vars, point_vars>>

BigIntToHex ==
  /\ ret = Start
  /\ \E value \in HexValues :
       ret' = Applied("big_int_to_hex", <<value>>, Ok(big_int_to_hex(value)))
  /\ UNCHANGED <<eddsa_vars, identity_vars, point_vars>>

\* scalar::bits of the integers of either sign up to MaxBitsN and of a few
\* larger ones.
MaxBitsN == 40
ScalarBits ==
  /\ ret = Start
  /\ \E n \in (-MaxBitsN)..MaxBitsN \cup {R, ORDER, -ORDER, 2 * TopBit - 1, -2 * TopBit} :
       ret' = Applied("bits", <<n>>,
                      IF scalar_bits(n).halts THEN Ok(scalar_bits(n).res)
                      ELSE Diverge)
  /\ UNCHANGED <<eddsa_vars, identity_vars, point_vars>>

NextPure ==
  \/ CurveMulPointEscalar
  \/ CurveAddPoint
  \/ CurveDerivePublicKey
  \/ CodecLeBytes
  \/ CodecBeBytes
  \/ \E op \in FieldOps : FieldCall(op)
  \/ SqrtTonelliShanks
  \/ Poseidon5Call
  \/ HexToBigInt
  \/ BigIntToHex
  \/ ScalarBits
  \/ \E order \in {"le_fixed_size", "be_fixed_size"} : CodecFixedSize(order)

SpecPure == InitPure /\ [][NextPure]_vars

\* ------------------------------------------------------------------------
\* Properties of the EdDSA session (Spec)
\* ------------------------------------------------------------------------

\* C1: verifying the signature sign_message returned for (sk, msg), with
\* the message msg and the key derive_public_key(sk), returns Ok(true).
C1_SignThenVerify ==
  (ret.op = "verify_signature" /\ sig_src = "signed" /\ pk_src = "derived")
    => (ret.st = "ok" /\ ret.val = TRUE)

\* C2: when verify_signature accepts (msg, sig, pk), it accepts no message
\* whose little-endian integer differs from that of msg with the same sig
\* and pk.
C2_VerifyDependsOnMessage ==
  (ret.op = "verify_signature" /\ ret.st = "ok" /\ ret.val = TRUE)
    => \A m \in Messages :
         le_bytes_to_big_int(m) # le_bytes_to_big_int(sessMsg)
           => verify_signature(m, sessSig[1], sessPk[1]) # Ok(TRUE)

\* C3: derive_secret_scalar(sk) is the integer of the pruned first half of
\* the hash of sk, shifted right by 3 and reduced modulo SUBORDER.
C3_ScalarOfPrunedBuffer ==
  ret.op = "derive_secret_scalar"
    => /\ ret.st = "ok"
       /\ ret.val = scalar_shift_right(
                      le_bytes_to_big_int(
                        prune_buffer(SubSeq(hash_input(sessKey), 1, BufLen))), 3)
                    % SUBORDER

\* C4: verify_signature returns a boolean for every signature and public
\* key, and false when R8 or the public key is off the curve.
C4_VerifyNeverRaises ==
  ret.op = "verify_signature"
    => /\ ret.st = "ok"
       /\ ret.val \in BOOLEAN
       /\ (~in_curve(sessSig[1].r8) \/ ~in_curve(sessPk[1])) => ret.val = FALSE

\* C9: a signature returned by sign_message has R8 on the curve and
\* S < SUBORDER, and pack_signature accepts it.
C9_SignedSignatureInvariant ==
  (ret.op = "sign_message" /\ ret.st = "ok")
    => /\ in_curve(ret.val.r8)
       /\ ret.val.s < SUBORDER
       /\ IsOk(pack_signature(ret.val))

\* C10: pack_signature returns Err exactly when R8 is off the curve or
\* S >= SUBORDER, and 2*BufLen bytes otherwise.
C10_PackSignatureErrsExactly ==
  ret.op = "pack_signature"
    => IF ~in_curve(sessSig[1].r8) \/ sessSig[1].s >= SUBORDER
       THEN ret.st = "err"
       ELSE ret.st = "ok" /\ Len(ret.val) = 2 * BufLen

\* C20: every call of mul_point_escalar that derive_public_key,
\* sign_message and verify_signature make passes a scalar that is not
\* negative, and the loop ends for every Signature a caller supplies.
C20_MulScalarsNonNegative ==
  /\ ret.op \in {"derive_public_key", "sign_message", "verify_signature"}
       => ret.st # "diverge"
  /\ (ret.op = "verify_signature"
        /\ in_curve(sessSig[1].r8) /\ in_curve(sessPk[1]))
       => sessSig[1].s >= 0

\* ------------------------------------------------------------------------
\* Properties of the Identity session (SpecIdentity)
\* ------------------------------------------------------------------------

\* C5: an identity made by new(Some(sk)) has private_key = sk,
\* secret_scalar = derive_secret_scalar(sk), public_key = secret_scalar * BASE8
\* = derive_public_key(sk) and commitment = Poseidon(public_key.x,
\* public_key.y) = generate_commitment(public_key), in every state of the
\* session: after new and after every later accessor and operation.
C5_IdentityInvariant ==
  (identity # None /\ given # None)
    => /\ identity[1].private_key = given[1]
       /\ identity[1].secret_scalar = derive_secret_scalar(given[1]).val
       /\ identity[1].public_key
            = mul_point_escalar(BASE8, identity[1].secret_scalar)
       /\ identity[1].public_key = derive_public_key(given[1]).val
       /\ identity[1].commitment
            = poseidon_hash2(identity[1].public_key[1], identity[1].public_key[2])
       /\ identity[1].commitment
            = Identity_generate_commitment(identity[1].public_key)

\* C5 witness: the identity of the empty key, after export, import and a
\* signature.
C5_Witness ==
  /\ given = Some(<<>>) /\ identity # None
  /\ exported # None /\ imported # None
  /\ ret.op = "sign_message"

\* C6: importing what export returned succeeds and yields an identity with
\* the same private_key, secret_scalar, public_key and commitment.
C6_ExportImportRoundTrip ==
  (ret.op = "import" /\ exported # None /\ ret.val = exported[1])
    => /\ ret.st = "ok"
       /\ imported # None
       /\ imported[1].private_key = identity[1].private_key
       /\ imported[1].secret_scalar = identity[1].secret_scalar
       /\ imported[1].public_key = identity[1].public_key
       /\ imported[1].commitment = identity[1].commitment

\* C6 witness: the export of a three-byte key that is not UTF-8 was
\* imported.
C6_Witness ==
  /\ ret.op = "import" /\ exported # None /\ ret.val = exported[1]
  /\ Len(identity[1].private_key) = 3
  /\ ~utf8_valid(identity[1].private_key)

\* ------------------------------------------------------------------------
\* Properties of the point codec (SpecPoint)
\* ------------------------------------------------------------------------

\* C7: unpacking the packing of a canonical point of the curve returns
\* Some of that point.
C7_PackUnpackRoundTrip ==
  (ret.op = "unpack_point" /\ packed_src = "packed")
    => (in_curve(curPoint) /\ ret.val = Some(curPoint))

\* C7 witness: a point whose x is in the upper half of the field (its sign
\* bit is set) was packed and unpacked.
C7_Witness ==
  /\ ret.op = "unpack_point" /\ packed_src = "packed"
  /\ curPoint[1] > F1Field_half(Fr)
  /\ curPacked[1] >= TopBit

\* C8: unpack_point returns None for a packed value whose low bits (all
\* but the top bit of BufLen bytes) are y >= R, and every point it returns
\* has y in 0..R-1.
C8_UnpackRejectsNonCanonicalY ==
  ret.op = "unpack_point"
    => /\ (curPacked[1] % TopBit >= R => ret.val = None)
       /\ (ret.val # None /\ ret.st = "ok" => ret.val[1][2] \in 0..(R - 1))

\* ------------------------------------------------------------------------
\* Properties of the signature codec (SpecSignature)
\* ------------------------------------------------------------------------

\* C11: unpack_signature returns Err exactly when the length is not
\* 2*BufLen or the first BufLen bytes fail unpack_point; otherwise it
\* returns Ok with that point and S the little-endian integer of the last
\* BufLen bytes, whatever the value of S.
C11_UnpackSignatureErrsExactly ==
  ret.op = "unpack_signature"
    => IF Len(curPacked[1]) # 2 * BufLen
       THEN ret.st = "err"
       ELSE IF unpack_point(le_bytes_to_big_int(SubSeq(curPacked[1], 1, BufLen))) = None
       THEN ret.st = "err"
       ELSE /\ ret.st = "ok"
            /\ ret.val.s = curPacked[1][BufLen + 1] + Byte * curPacked[1][BufLen + 2]
            /\ Some(ret.val.r8)
                 = unpack_point(curPacked[1][1] + Byte * curPacked[1][2])

\* C11 witness: bytes of the right length whose S is at least SUBORDER
\* were unpacked and accepted.
C11_Witness ==
  /\ ret.op = "unpack_signature" /\ packed_src = "supplied"
  /\ ret.st = "ok" /\ ret.val.s >= SUBORDER

\* C12: for a signature with R8 a canonical point of the curve and
\* 0 <= S < SUBORDER, pack_signature returns the BufLen little-endian bytes
\* of pack_point(R8) followed by the BufLen little-endian bytes of S, and
\* unpack_signature of those bytes returns the same R8 and S.
C12_SignaturePackUnpackRoundTrip ==
  (/\ sessSig # None /\ ret.op \in {"pack_signature", "unpack_signature"}
   /\ in_curve(sessSig[1].r8)
   /\ sessSig[1].r8[1] \in 0..(R - 1) /\ sessSig[1].r8[2] \in 0..(R - 1)
   /\ sessSig[1].s \in 0..(SUBORDER - 1))
    => /\ packed_src = "packed"
       /\ Len(curPacked[1]) = 2 * BufLen
       /\ curPacked[1][1] + Byte * curPacked[1][2] = pack_point(sessSig[1].r8)
       /\ curPacked[1][BufLen + 1] + Byte * curPacked[1][BufLen + 2] = sessSig[1].s
       /\ \A i \in 1..(2 * BufLen) : curPacked[1][i] \in 0..(Byte - 1)
       /\ ret.op = "unpack_signature" => ret = Call("unpack_signature", Ok(sessSig[1]))

\* C12 witness: a signature whose R8 has its sign bit set and whose S
\* needs both bytes was packed and unpacked.
C12_Witness ==
  /\ sessSig # None /\ ret.op = "unpack_signature" /\ ret.st = "ok"
  /\ sessSig[1].r8[1] > F1Field_half(Fr)
  /\ sessSig[1].s = SUBORDER - 1

\* ------------------------------------------------------------------------
\* Properties of the pure functions (SpecPure)
\* ------------------------------------------------------------------------

\* C13: mul_point_escalar(BASE8, k) is on the curve for every scalar
\* k >= 0, derive_public_key(sk) is on the curve for every key sk, and
\* add_point of (0, 1) and BASE8 is on the curve.
C13_SubgroupClosure ==
  /\ (ret.op = "mul_point_escalar" /\ ret.val.args[1] = BASE8)
       => (ret.st = "ok" /\ in_curve(ret.val.res))
  /\ ret.op = "derive_public_key"
       => (ret.st = "ok" /\ in_curve(ret.val.res))
  /\ (ret.op = "add_point" /\ ret.val.args = <<<<0, 1>>, BASE8>>)
       => (ret.st = "ok" /\ in_curve(ret.val.res))

\* C13 witness: BASE8 was multiplied by the largest BufLen-byte scalar.
C13_Witness ==
  /\ ret.op = "mul_point_escalar"
  /\ ret.val.args = <<BASE8, 2 * TopBit - 1>>
  /\ ret.val.res # <<0, 1>>

\* C14: for every byte string b of length n, n = 0 included,
\* big_int_to_le_bytes(le_bytes_to_big_int(b), Some(n)) = Ok(b) and
\* big_int_to_be_bytes(be_bytes_to_big_int(b), Some(n)) = Ok(b).
C14_ByteCodecRoundTrip ==
  ret.op \in {"big_int_to_le_bytes", "big_int_to_be_bytes"}
    => (ret.st = "ok" /\ ret.val.res = ret.val.args[1])

\* C15: for canonical a and b, add, sub, mul, square, neg, div (b # 0) and
\* inv (a # 0) return the mathematical result modulo R, in [0, R); e(v)
\* returns v mod R in [0, R) for every integer v, negative ones included.
C15_CanonicalForm ==
  ret.op \in {"e", "add", "sub", "mul", "square", "neg", "div", "inv"}
    => \/ ret.st = "panic" /\ ret.op \in {"div", "inv"}
       \/ /\ ret.st = "ok"
          /\ ret.val.res \in 0..(R - 1)
          /\ ret.val.res =
               CASE ret.op = "e"   -> (ret.val.args[1] + (MaxWrap + 1) * R) % R
                 [] ret.op = "add" -> (ret.val.args[1] + ret.val.args[2]) % R
                 [] ret.op = "sub" -> (ret.val.args[1] + R - ret.val.args[2]) % R
                 [] ret.op = "mul" -> (ret.val.args[1] * ret.val.args[2]) % R
                 [] ret.op = "square" -> (ret.val.args[1] * ret.val.args[1]) % R
                 [] ret.op = "neg" -> (R - ret.val.args[1]) % R
                 [] ret.op = "div" ->
                      CHOOSE q \in 0..(R - 1) :
                        (q * ret.val.args[2]) % R = ret.val.args[1]
                 [] ret.op = "inv" ->
                      CHOOSE q \in 0..(R - 1) : (q * ret.val.args[1]) % R = 1

\* C15 witness: e was given a negative integer.
C15_Witness ==
  ret.op = "e" /\ ret.val.args[1] = -R - 1 /\ ret.val.res = R - 1

\* C16 as stated: inv(0) is the only call of the field that fails; every
\* other call of e, add, sub, mul, square, neg, div, pow, eq, lt, geq and
\* is_zero returns a value for canonical arguments and any exponent.
C16_OnlyInvOfZeroFails ==
  ret.op \in FieldOps
    => (ret.st # "ok" <=> (ret.op = "inv" /\ ret.val.args[1] = 0))

\* C16 amended: a call of the field either returns a value or panics, and
\* it panics exactly where inv is reached with zero: inv(0), div(a, 0) and
\* pow(0, e) with e < 0.
C16_FailsExactlyThroughInvOfZero ==
  ret.op \in FieldOps
    => /\ ret.st \in {"ok", "panic"}
       /\ ret.st = "panic" <=>
            \/ ret.op = "inv" /\ ret.val.args[1] = 0
            \/ ret.op = "div" /\ ret.val.args[2] = 0
            \/ ret.op = "pow" /\ ret.val.args[1] = 0 /\ ret.val.args[2] < 0

\* C16 witness: a division by zero panicked.
C16_Witness ==
  ret.op = "div" /\ ret.val.args = <<1, 0>> /\ ret.st = "panic"

\* a^n modulo R by n multiplications, for 0 <= n.
RECURSIVE PowerMod(_, _)
PowerMod(a, n) == IF n = 0 THEN 1 ELSE (a * PowerMod(a, n - 1)) % R

\* The power that the laws of exponents define: b^|e| for the exponents up
\* to MaxExp, Fermat's b^(R-1) = 1 and b^R = b beyond.
PowerLaw(b, n) ==
  IF n <= MaxExp THEN PowerMod(b, n)
  ELSE IF b = 0 THEN 0
  ELSE IF n = R - 1 THEN 1 ELSE b

\* C17: for canonical a, pow(a, 0) = 1 and pow(a, 1) = a; for a # 0,
\* pow(a, R - 1) = 1 and pow(a, -1) = inv(a); pow(a, e) is a^e mod R for
\* e >= 0 and inv(a)^(-e) for e < 0.
C17_ExponentiationLaws ==
  (ret.op = "pow" /\ ret.st = "ok")
    => /\ ret.val.args[2] = 0 => ret.val.res = 1
       /\ ret.val.args[2] = 1 => ret.val.res = ret.val.args[1]
       /\ (ret.val.args[2] = R - 1 /\ ret.val.args[1] # 0) => ret.val.res = 1
       /\ (ret.val.args[2] = -1 /\ ret.val.args[1] # 0)
            => ret.val.res = F1Field_inv(Fr, ret.val.args[1])
       /\ ret.val.args[2] >= 0
            => ret.val.res = PowerLaw(ret.val.args[1], ret.val.args[2])
       /\ ret.val.args[2] < 0
            => ret.val.res = PowerLaw(F1Field_inv(Fr, ret.val.args[1]),
                                      -ret.val.args[2])

\* C17 witness: a power with a negative exponent of several bits.
C17_Witness ==
  /\ ret.op = "pow" /\ ret.st = "ok"
  /\ ret.val.args = <<2, -5>>
  /\ ret.val.res = PowerMod(F1Field_inv(Fr, 2), 5)
  /\ ret.val.res # 1

\* The quadratic residues modulo R, zero included.
Squares == {(y * y) % R : y \in 0..(R \div 2)}

\* C18: for every n in [0, R), tonelli_shanks(n, R) returns Some(y) with
\* y*y = n mod R and y <= R div 2 when n is a quadratic residue (0 for
\* n = 0), and None exactly when n is not one.
C18_TonelliShanksCorrect ==
  ret.op = "tonelli_shanks"
    => /\ ret.st = "ok"
       /\ ret.val.args[1] \notin Squares <=> ret.val.res = None
       /\ ret.val.res # None
            => /\ (ret.val.res[1] * ret.val.res[1]) % R = ret.val.args[1]
               /\ ret.val.res[1] \in 0..(R \div 2)
       /\ ret.val.args[1] = 0 => ret.val.res = Some(0)

\* C18 witness: the root of R - 1, an element of order 4, which the loop
\* finds after several rounds.
C18_Witness ==
  /\ ret.op = "tonelli_shanks"
  /\ ret.val.args = <<R - 1>>
  /\ ret.val.res # None

\* The points of CurvePoints in the subgroup that BASE8 generates.
SubgroupPoints ==
  {mul_point_escalar(BASE8, k) : k \in 0..(MaxPointK \div 8)}

\* C19 as stated: for every point P on the curve, mul_point_escalar(P, 0)
\* is (0, 1), mul_point_escalar(P, 1) is P and mul_point_escalar(P, L) is
\* (0, 1), L = SUBORDER.
C19_ScalarLawsEveryPoint ==
  (ret.op = "mul_point_escalar" /\ in_curve(ret.val.args[1]))
    => /\ ret.val.args[2] = 0 => ret.val.res = <<0, 1>>
       /\ ret.val.args[2] = 1 => ret.val.res = ret.val.args[1]
       /\ ret.val.args[2] = SUBORDER => ret.val.res = <<0, 1>>

\* C19 amended: mul_point_escalar(P, 0) is (0, 1) and
\* mul_point_escalar(P, 1) is P for every point P on the curve (canonical
\* coordinates); mul_point_escalar(P, L) is (0, 1) exactly for the points
\* of the subgroup that BASE8 generates.
C19_ScalarLawsSubgroup ==
  (ret.op = "mul_point_escalar" /\ in_curve(ret.val.args[1]))
    => /\ ret.val.args[2] = 0 => ret.val.res = <<0, 1>>
       /\ ret.val.args[2] = 1 => ret.val.res = ret.val.args[1]
       /\ ret.val.args[2] = SUBORDER
            => (ret.val.res = <<0, 1>> <=> ret.val.args[1] \in SubgroupPoints)

\* C19 witness: a point of the subgroup other than (0, 1) and BASE8 was
\* multiplied by L.
C19_Witness ==
  /\ ret.op = "mul_point_escalar"
  /\ ret.val.args = <<mul_point_escalar(BASE8, 5), SUBORDER>>
  /\ ret.val.res = <<0, 1>>

\* C21: poseidon5 depends on elements 0 and 1 of its five-element input
\* only: two vectors that agree on them and differ in A.x, A.y or msg give
\* the same result.
C21_Poseidon5ReadsTwoNodes ==
  ret.op = "poseidon5"
    => \A w \in Poseidon5Inputs :
         (w[1] = ret.val.args[1] /\ w[2] = ret.val.args[2])
           => /\ poseidon5_panics(w) <=> ret.st = "panic"
              /\ ret.st = "ok" => poseidon5(w) = ret.val.res

\* C21 witness: poseidon5 returned for a vector whose last three elements
\* are not those of another vector with the same first two.
C21_Witness ==
  /\ ret.op = "poseidon5" /\ ret.st = "ok"
  /\ ret.val.args = <<1, R + 1, 7, -1, 7>>
  /\ ret.val.res = poseidon5(<<1, R + 1, 0, 0, 0>>)

\* value is an integer that size bytes can hold: 0 <= value < Byte^size.
FitsIn(value, size) ==
  /\ value >= 0
  /\ value = 0 \/ (size >= 1 /\ value \div Pow2(8 * (size - 1)) < Byte)

\* C22: big_int_to_le_bytes(v, Some(size)) and big_int_to_be_bytes(v,
\* Some(size)) return Err exactly when v does not fit in size bytes, and
\* otherwise exactly size bytes that decode back to v (so the padding is
\* zero bytes on the most significant side).
C22_FixedSizeEncoding ==
  ret.op \in {"le_fixed_size", "be_fixed_size"}
    => /\ ret.st = "err" <=> ~FitsIn(ret.val.args[1], ret.val.args[2])
       /\ ret.st = "ok"
            => /\ Len(ret.val.res) = ret.val.args[2]
               /\ ret.val.args[1] =
                    IF ret.op = "le_fixed_size"
                    THEN le_bytes_to_big_int(ret.val.res)
                    ELSE be_bytes_to_big_int(ret.val.res)

\* s is a string of one or more hexadecimal digits.
IsHexBody(s) ==
  s # <<>> /\ \A i \in 1..Len(s) : digit_value(s[i]) >= 0

\* The integer that the digits of s spell in radix 16.
RECURSIVE HexValue(_)
HexValue(s) ==
  IF s = <<>> THEN 0
  ELSE 16 * HexValue(SubSeq(s, 1, Len(s) - 1)) + digit_value(s[Len(s)])

\* C23: hex_to_big_int returns the integer of a hexadecimal string given
\* without prefix, with "0x" or with "0X"; big_int_to_hex of v >= 0 is
\* lower-case, of even length and without prefix, and hex_to_big_int
\* returns v for it.
C23_HexCodec ==
  /\ ret.op = "hex_to_big_int"
       => \A body \in HexStrings :
            (IsHexBody(body)
              /\ ret.val.args[1] \in {body, <<"0", "x">> \o body, <<"0", "X">> \o body})
            => (ret.st = "ok" /\ ret.val.res = HexValue(body))
  /\ (ret.op = "big_int_to_hex" /\ ret.val.args[1] >= 0)
       => /\ Len(ret.val.res) % 2 = 0
          /\ \A i \in 1..Len(ret.val.res) :
               \E d \in 1..16 : HexDigits[d] = ret.val.res[i]
          /\ hex_to_big_int(ret.val.res) = Ok(ret.val.args[1])

\* The integer whose bits, least significant first, are those of bits.
RECURSIVE BitsValue(_)
BitsValue(bits) ==
  IF bits = <<>> THEN 0 ELSE Head(bits) + 2 * BitsValue(Tail(bits))

\* C24: bits(n) returns for every integer n, negative ones included, and
\* for n >= 0 it returns the bits of n, least significant first: the empty
\* sequence for 0, and a sequence that ends with 1 otherwise.
C24_BitsTotal ==
  ret.op = "bits"
    => /\ ret.st = "ok"
       /\ ret.val.args[1] >= 0
            => /\ \A i \in 1..Len(ret.val.res) : ret.val.res[i] \in {0, 1}
               /\ BitsValue(ret.val.res) = ret.val.args[1]
               /\ ret.val.args[1] = 0 => ret.val.res = <<>>
               /\ ret.val.args[1] > 0 => ret.val.res[Len(ret.val.res)] = 1

====
